---- MODULE Spec2Model ----
(***************************************************************************)
(* RevaultPass (src/src/main.rs): the store file, its container codec      *)
(* (RVP0 plain / RVP1 encrypted), load_entries, save_entries and the       *)
(* command dispatcher of main.                                             *)
(*                                                                         *)
(* Bytes are the integers 0..255, a file or a string is a sequence of      *)
(* bytes.  The two library primitives the program calls, Argon2id and      *)
(* ChaCha20-Poly1305, are modelled by collision-free stand-ins over the    *)
(* modelled passphrases: deterministic, invertible under the right key,    *)
(* and with a tag that differs whenever the passphrase differs.            *)
(***************************************************************************)
EXTENDS Integers, Sequences, FiniteSets, TLC

-----------------------------------------------------------------------------
(* Program constants.                                                      *)

MAGIC_ENCRYPTED == <<82, 86, 80, 49>>      \* b"RVP1"
MAGIC_PLAIN == <<82, 86, 80, 48>>          \* b"RVP0"
SALT_LEN == 16
NONCE_LEN == 12
TAG_LEN == 16                               \* the "+ 16" of decrypt's length check
KEY_LEN == 32

-----------------------------------------------------------------------------
(* Bounds of the model.                                                    *)

MaxRecords == 2     \* longest record sequence handed to save_entries directly
NumSalts == 2       \* distinct values the random salt may take
NumNonces == 1      \* distinct values the random nonce may take

-----------------------------------------------------------------------------
(* Byte-sequence helpers.                                                  *)

SubSeqFrom(s, i) == SubSeq(s, i, Len(s))

\* A function on 1..n, as the sequence of its values.
Bytes(f) == SubSeq(f, 1, Len(f))

\* Option<&str>: None, or Some(s).
None == [some |-> FALSE, s |-> <<>>]
Some(s) == [some |-> TRUE, s |-> s]

-----------------------------------------------------------------------------
(* serde_json::to_vec(&[Entry]): a JSON array of objects with the fields   *)
(* name, user, password in declaration order, no whitespace; inside a      *)
(* string, '"' and '\' are escaped with a backslash and a line feed is     *)
(* written \n.                                                             *)

\* EscapeStr without the escaping.
EscapeStrNone(s) == s

RECURSIVE EscapeStr(_)
EscapeStr(s) ==
    IF s = <<>> THEN <<>>
    ELSE LET b == Head(s)
         IN  (CASE b = 34 -> <<92, 34>>
                [] b = 92 -> <<92, 92>>
                [] b = 10 -> <<92, 110>>
                [] OTHER  -> <<b>>) \o EscapeStr(Tail(s))

JsonString(s) == <<34>> \o EscapeStr(s) \o <<34>>

\* {"name":"..","user":"..","password":".."}
EntryJson(e) ==
    <<123, 34, 110, 97, 109, 101, 34, 58>> \o JsonString(e.name)
    \o <<44, 34, 117, 115, 101, 114, 34, 58>> \o JsonString(e.user)
    \o <<44, 34, 112, 97, 115, 115, 119, 111, 114, 100, 34, 58>>
    \o JsonString(e.password) \o <<125>>

RECURSIVE JoinEntries(_)
JoinEntries(es) ==
    IF es = <<>> THEN <<>>
    ELSE IF Len(es) = 1 THEN EntryJson(es[1])
    ELSE EntryJson(es[1]) \o <<44>> \o JoinEntries(Tail(es))

to_vec(entries) == <<91>> \o JoinEntries(entries) \o <<93>>

-----------------------------------------------------------------------------
(* serde_json::from_slice::<Vec<Entry>>: optional whitespace, '[', objects  *)
(* separated by ',', ']', nothing but whitespace after it.  An object's     *)
(* members come in any order; a member with another key is ignored, a       *)
(* repeated or a missing field is an error.  Values are strings (the only   *)
(* JSON values the modelled payloads hold).  A parse result is              *)
(* [ok, pos, val]: pos is the index after what was read.                    *)

At(s, i) == IF i >= 1 /\ i <= Len(s) THEN s[i] ELSE -1

IsWs(b) == b \in {32, 9, 10, 13}

RECURSIVE SkipWs(_, _)
SkipWs(s, i) == IF IsWs(At(s, i)) THEN SkipWs(s, i + 1) ELSE i

ParseFail == [ok |-> FALSE, pos |-> 0, val |-> <<>>]

\* The body of a string, after its opening quote.  A raw control character,
\* an unknown escape, a byte that is never valid UTF-8, or the end of the
\* input inside the string is an error.
RECURSIVE StrBody(_, _, _)
StrStep(s, j, acc, b, c) ==
    CASE b = 34 -> [ok |-> TRUE, pos |-> j + 1, val |-> acc]
      [] b = 92 /\ c \in {34, 92, 47} -> StrBody(s, j + 2, Append(acc, c))
      [] b = 92 /\ c = 110 -> StrBody(s, j + 2, Append(acc, 10))
      [] b >= 32 /\ b < 248 /\ b # 92 -> StrBody(s, j + 1, Append(acc, b))
      [] OTHER -> ParseFail

StrBody(s, j, acc) == StrStep(s, j, acc, At(s, j), At(s, j + 1))

ParseString(s, i) == IF At(s, i) = 34 THEN StrBody(s, i + 1, <<>>) ELSE ParseFail

KeyName == <<110, 97, 109, 101>>
KeyUser == <<117, 115, 101, 114>>
KeyPassword == <<112, 97, 115, 115, 119, 111, 114, 100>>

NoFields == [name |-> None, user |-> None, password |-> None]

\* A field read twice.
IsDuplicate(got, key) ==
    \/ key = KeyName /\ got.name.some
    \/ key = KeyUser /\ got.user.some
    \/ key = KeyPassword /\ got.password.some

\* got with the member key: val taken in; a member of another name is ignored.
WithField(got, key, val) ==
    CASE key = KeyName -> [got EXCEPT !.name = Some(val)]
      [] key = KeyUser -> [got EXCEPT !.user = Some(val)]
      [] key = KeyPassword -> [got EXCEPT !.password = Some(val)]
      [] OTHER -> got

\* The end of an object at '}' (index e): every field must have been read.
EndOfEntry(got, e) ==
    IF got.name.some /\ got.user.some /\ got.password.some
    THEN [ok |-> TRUE, pos |-> e + 1,
          val |-> [name |-> got.name.s, user |-> got.user.s,
                   password |-> got.password.s]]
    ELSE ParseFail

\* The members of an object, from the first key (at index i) on; got holds
\* the fields read so far.
RECURSIVE ParseMembers(_, _, _)
AfterMember(s, got, e) ==
    IF At(s, e) = 44 THEN ParseMembers(s, SkipWs(s, e + 1), got)
    ELSE IF At(s, e) = 125 THEN EndOfEntry(got, e)
    ELSE ParseFail

AfterValue(s, got, key, v) ==
    IF ~v.ok \/ IsDuplicate(got, key) THEN ParseFail
    ELSE AfterMember(s, WithField(got, key, v.val), SkipWs(s, v.pos))

AfterKey(s, got, key, colon) ==
    IF At(s, colon) # 58 THEN ParseFail
    ELSE AfterValue(s, got, key, ParseString(s, SkipWs(s, colon + 1)))

MemberKey(s, got, k) ==
    IF ~k.ok THEN ParseFail ELSE AfterKey(s, got, k.val, SkipWs(s, k.pos))

ParseMembers(s, i, got) == MemberKey(s, got, ParseString(s, i))

ParseEntry(s, i) ==
    IF At(s, i) = 123 THEN ParseMembers(s, SkipWs(s, i + 1), NoFields)
    ELSE ParseFail

\* The elements of an array, from the first (at index i) on.
RECURSIVE ParseElems(_, _, _)
AfterElem(s, acc, j) ==
    IF At(s, j) = 44 THEN ParseElems(s, SkipWs(s, j + 1), acc)
    ELSE IF At(s, j) = 93 THEN [ok |-> TRUE, pos |-> j + 1, val |-> acc]
    ELSE ParseFail

ElemRead(s, acc, e) ==
    IF ~e.ok THEN ParseFail
    ELSE AfterElem(s, Append(acc, e.val), SkipWs(s, e.pos))

ParseElems(s, i, acc) == ElemRead(s, acc, ParseEntry(s, i))

ArrayFrom(s, i, j) ==
    IF At(s, i) # 91 THEN ParseFail
    ELSE IF At(s, j) = 93 THEN [ok |-> TRUE, pos |-> j + 1, val |-> <<>>]
    ELSE ParseElems(s, j, <<>>)

\* Nothing but whitespace may follow the array.
WholeInput(s, a) ==
    IF a.ok /\ SkipWs(s, a.pos) = Len(s) + 1
    THEN [ok |-> TRUE, val |-> a.val]
    ELSE [ok |-> FALSE, val |-> <<>>]

ParseArray(s, i) == WholeInput(s, ArrayFrom(s, i, SkipWs(s, i + 1)))

from_slice(bytes) == ParseArray(bytes, SkipWs(bytes, 1))

\* String::from_utf8_lossy: an ASCII byte is kept; a byte that can be part
\* of no UTF-8 sequence (0xF8..0xFF, the only non-ASCII bytes of the
\* modelled plain payloads) becomes U+FFFD, EF BF BD.
RECURSIVE LossyRange(_, _, _)
LossyRange(s, lo, hi) ==
    IF lo > hi THEN <<>>
    ELSE IF lo = hi THEN (IF s[lo] < 128 THEN <<s[lo]>> ELSE <<239, 191, 189>>)
    ELSE LET mid == (lo + hi) \div 2
         IN  LossyRange(s, lo, mid) \o LossyRange(s, mid + 1, hi)

from_utf8_lossy(s) == LossyRange(s, 1, Len(s))

-----------------------------------------------------------------------------
(* The key derivation and the cipher.                                      *)

RECURSIVE Digest(_)
Digest(s) == IF s = <<>> THEN 7 ELSE (Digest(Tail(s)) * 31 + Head(s) + 1) % 251

\* derive_key: Argon2id(passphrase, salt) -> 32 bytes.  Deterministic; two
\* modelled passphrases give keys that differ in every byte.
derive_key(passphrase, salt) ==
    LET d == Digest(passphrase)
    IN  Bytes([i \in 1..KEY_LEN |-> (d + salt[((i - 1) % SALT_LEN) + 1] + i) % 256])

KeyStream(key, nonce, i) ==
    (key[((i - 1) % KEY_LEN) + 1] + nonce[((i - 1) % NONCE_LEN) + 1] + i) % 256

\* A checksum of bytes lo..hi of c, each weighted by its position (computed
\* by halves).
RECURSIVE PolyRange(_, _, _)
PolyRange(c, lo, hi) ==
    IF lo > hi THEN 0
    ELSE IF lo = hi THEN ((c[lo] + 1) * (2 * lo + 1)) % 256
    ELSE LET mid == (lo + hi) \div 2
         IN  (PolyRange(c, lo, mid) + PolyRange(c, mid + 1, hi)) % 256

Poly(c) == PolyRange(c, 1, Len(c))

\* The 16-byte authenticator of a ciphertext under a key and a nonce.
AuthTag(key, nonce, c) ==
    LET m == Poly(c)
    IN  Bytes([i \in 1..TAG_LEN |->
                 (key[i] + nonce[((i - 1) % NONCE_LEN) + 1] + m * i) % 256])

\* ChaCha20Poly1305::encrypt: the ciphertext, as long as the plaintext,
\* followed by the tag.
CipherEncrypt(key, nonce, plain) ==
    LET c == Bytes([i \in 1..Len(plain) |->
                      (plain[i] + KeyStream(key, nonce, i)) % 256])
    IN  c \o AuthTag(key, nonce, c)

\* CipherDecrypt without the verification of the tag.
CipherDecryptUnverified(key, nonce, ct) ==
    LET n == Len(ct) - TAG_LEN
        c == SubSeq(ct, 1, n)
    IN  IF n < 0 THEN [ok |-> FALSE, val |-> <<>>]
        ELSE [ok |-> TRUE,
              val |-> Bytes([i \in 1..n |-> (c[i] - KeyStream(key, nonce, i)) % 256])]

\* ChaCha20Poly1305::decrypt: the tag is verified first; the plaintext is
\* produced only when it verifies.
CipherDecrypt(key, nonce, ct) ==
    LET n == Len(ct) - TAG_LEN
        c == SubSeq(ct, 1, n)
    IN  IF n < 0 \/ SubSeq(ct, n + 1, Len(ct)) # AuthTag(key, nonce, c)
        THEN [ok |-> FALSE, val |-> <<>>]
        ELSE [ok |-> TRUE,
              val |-> Bytes([i \in 1..n |-> (c[i] - KeyStream(key, nonce, i)) % 256])]

\* The values OsRng may give the salt and the nonce.
Salts == {Bytes([i \in 1..SALT_LEN |-> (17 * k + i) % 256]) : k \in 1..NumSalts}
Nonces == {Bytes([i \in 1..NONCE_LEN |-> (29 * k + 5 * i) % 256]) : k \in 1..NumNonces}

\* encrypt, with the salt and nonce it drew.
encrypt(plain, passphrase, salt, nonce) ==
    MAGIC_ENCRYPTED \o salt \o nonce
    \o CipherEncrypt(derive_key(passphrase, salt), nonce, plain)

\* A Result: Ok(val) or Err(err).
Ok(v) == [ok |-> TRUE, err |-> "", val |-> v]
Err(e) == [ok |-> FALSE, err |-> e, val |-> <<>>]

ErrTooShort == "file too short"
ErrNotEncrypted == "not encrypted or wrong format"
ErrAuth == "wrong passphrase or corrupted data"
ErrNoKey == "encrypted store: passphrase required"
ErrJson == "serde_json error"

\* cipher.decrypt(..).map_err(|_| "wrong passphrase or corrupted data")
AuthResult(plain) == IF plain.ok THEN Ok(plain.val) ELSE Err(ErrAuth)

decrypt(data, passphrase) ==
    IF Len(data) < 4 + SALT_LEN + NONCE_LEN + TAG_LEN THEN Err(ErrTooShort)
    ELSE IF SubSeq(data, 1, 4) # MAGIC_ENCRYPTED THEN Err(ErrNotEncrypted)
    ELSE LET salt == SubSeq(data, 5, 4 + SALT_LEN)
             nonce == SubSeq(data, 5 + SALT_LEN, 4 + SALT_LEN + NONCE_LEN)
             ciphertext == SubSeqFrom(data, 5 + SALT_LEN + NONCE_LEN)
         IN  AuthResult(CipherDecrypt(derive_key(passphrase, salt), nonce, ciphertext))

-----------------------------------------------------------------------------
(* The store file: absent, or present with its bytes.                      *)

Absent == [exists |-> FALSE, data |-> <<>>]
Present(d) == [exists |-> TRUE, data |-> d]

\* serde_json::from_str(&s).unwrap_or_default()
ParsedOrDefault(r) == Ok(IF r.ok THEN r.val ELSE <<>>)

\* serde_json::from_slice(&plain)?
ParsedOrErr(r) == IF r.ok THEN Ok(r.val) ELSE Err(ErrJson)

\* let plain = decrypt(&data, pass)?; then the parse
DecryptedThenParsed(plain) ==
    IF ~plain.ok THEN plain ELSE ParsedOrErr(from_slice(plain.val))

\* LoadData with the length check of decrypt made before the tag is read.
LoadDataLengthFirst(data, passphrase) ==
    IF Len(data) < 4 + SALT_LEN + NONCE_LEN + TAG_LEN THEN Err(ErrTooShort)
    ELSE IF SubSeq(data, 1, 4) = MAGIC_PLAIN
    THEN ParsedOrDefault(from_slice(from_utf8_lossy(SubSeqFrom(data, 5))))
    ELSE IF SubSeq(data, 1, 4) = MAGIC_ENCRYPTED
    THEN IF ~passphrase.some THEN Err(ErrNoKey)
         ELSE DecryptedThenParsed(decrypt(data, passphrase.s))
    ELSE Ok(<<>>)

\* LoadData refusing a passphrase for a plain container.
LoadDataPlainRefusesKey(data, passphrase) ==
    IF Len(data) < 4 THEN Ok(<<>>)
    ELSE IF SubSeq(data, 1, 4) = MAGIC_PLAIN
    THEN IF passphrase.some THEN Err(ErrNotEncrypted)
         ELSE ParsedOrDefault(from_slice(from_utf8_lossy(SubSeqFrom(data, 5))))
    ELSE IF SubSeq(data, 1, 4) = MAGIC_ENCRYPTED
    THEN IF ~passphrase.some THEN Err(ErrNoKey)
         ELSE DecryptedThenParsed(decrypt(data, passphrase.s))
    ELSE Ok(<<>>)

\* LoadData raising an error for a tag it does not know.
LoadDataStrictTag(data, passphrase) ==
    IF Len(data) < 4 THEN Ok(<<>>)
    ELSE IF SubSeq(data, 1, 4) = MAGIC_PLAIN
    THEN ParsedOrDefault(from_slice(from_utf8_lossy(SubSeqFrom(data, 5))))
    ELSE IF SubSeq(data, 1, 4) = MAGIC_ENCRYPTED
    THEN IF ~passphrase.some THEN Err(ErrNoKey)
         ELSE DecryptedThenParsed(decrypt(data, passphrase.s))
    ELSE Err(ErrNotEncrypted)

\* LoadData treating an encrypted container opened without a passphrase as
\* an empty store.
LoadDataLenientKey(data, passphrase) ==
    IF Len(data) < 4 THEN Ok(<<>>)
    ELSE IF SubSeq(data, 1, 4) = MAGIC_PLAIN
    THEN ParsedOrDefault(from_slice(from_utf8_lossy(SubSeqFrom(data, 5))))
    ELSE IF SubSeq(data, 1, 4) = MAGIC_ENCRYPTED
    THEN IF ~passphrase.some THEN Ok(<<>>)
         ELSE DecryptedThenParsed(decrypt(data, passphrase.s))
    ELSE Ok(<<>>)

LoadData(data, passphrase) ==
    IF Len(data) < 4 THEN Ok(<<>>)
    ELSE IF SubSeq(data, 1, 4) = MAGIC_PLAIN
    THEN ParsedOrDefault(from_slice(from_utf8_lossy(SubSeqFrom(data, 5))))
    ELSE IF SubSeq(data, 1, 4) = MAGIC_ENCRYPTED
    THEN IF ~passphrase.some THEN Err(ErrNoKey)
         ELSE DecryptedThenParsed(decrypt(data, passphrase.s))
    ELSE Ok(<<>>)

\* load_entries: a file that is not there is an empty store.
load_entries(f, passphrase) ==
    IF ~f.exists THEN Ok(<<>>) ELSE LoadData(f.data, passphrase)

\* save_entries: the bytes it writes, with the salt and nonce encrypt drew
\* (neither is used without a passphrase).
save_entries(entries, passphrase, salt, nonce) ==
    LET json == to_vec(entries)
    IN  Present(IF passphrase.some THEN encrypt(json, passphrase.s, salt, nonce)
                ELSE MAGIC_PLAIN \o json)

-----------------------------------------------------------------------------
(* State.                                                                  *)

VARIABLES
    file,    \* the store file: Absent or Present(bytes)
    saved,   \* codec scenarios: what was put at the path (save_entries or raw bytes)
    res,     \* codec scenarios: the passphrase and Result of the last load_entries
    inv,     \* command line: the last invocation of main and how it ended
    pc,      \* concurrent adds: where each invocation is
    arg,     \* concurrent adds: the name and master key of each invocation
    loc,     \* concurrent adds: the entries each invocation loaded
    order    \* concurrent adds: the invocations in the order they wrote the file

vars == <<file, saved, res, inv, pc, arg, loc, order>>

NoSave == [kind |-> "none", entries |-> <<>>, pass |-> None]
NoLoad == [kind |-> "none", pass |-> None, r |-> Ok(<<>>)]
NoInv == [cmd |-> "none", name |-> <<>>, key |-> <<>>, exit |-> 0,
          out |-> "", shown |-> <<>>]
Procs == {1, 2}
NoProcs == [p \in Procs |-> "off"]
NoArgs == [p \in Procs |-> [name |-> <<>>, key |-> <<>>]]
NoLoc == [p \in Procs |-> <<>>]

-----------------------------------------------------------------------------
(* Codec scenarios: something is put at the path once, by save_entries or  *)
(* by another program, and load_entries reads it with any passphrase.      *)

NamesC == {<<97>>, <<65>>, <<34, 92>>}          \* a  A  "\
UsersC == {<<>>, <<117>>}                        \* (empty)  u
SecretsC == {<<112>>}                            \* p
EntriesC == {[name |-> n, user |-> u, password |-> w] :
                n \in NamesC, u \in UsersC, w \in SecretsC}
RecordSeqs == UNION {[1..n -> EntriesC] : n \in 0..MaxRecords}

PassK == <<107>>                                 \* k
PassW == <<119>>                                 \* w
PassOpts == {None, Some(<<>>), Some(PassK), Some(PassW)}

\* Payloads serde_json rejects: empty, "[", "{}", "[]x", an entry without its
\* user and password, a byte that is not UTF-8.
BadPayloads ==
    { <<>>, <<91>>, <<123, 125>>, <<91, 93, 120>>,
      <<91, 123, 34, 110, 97, 109, 101, 34, 58, 34, 97, 34, 125, 93>>,
      <<255>> }

\* Payloads it accepts that to_vec does not write: whitespace, the fields in
\* another order.
OddPayloads ==
    { <<32, 91, 32, 93, 10>>,
      <<91, 123, 34, 117, 115, 101, 114, 34, 58, 34, 117, 34, 44>>
        \o <<34, 112, 97, 115, 115, 119, 111, 114, 100, 34, 58, 34, 112, 34, 44>>
        \o <<34, 110, 97, 109, 101, 34, 58, 34, 97, 34, 125, 93>> }

Fill(n) == Bytes([i \in 1..n |-> 48 + (i % 10)])

\* Files another program may leave at the path: shorter than a tag, with an
\* unknown tag, a short or forged RVP1 container, plain and encrypted
\* containers around the payloads above.
RawFiles ==
    { <<>>, <<82>>, <<82, 86, 80>>, Fill(10), Fill(60),
      <<82, 86, 80, 50, 91, 93>>, <<114, 118, 112, 48, 91, 93>>,
      MAGIC_ENCRYPTED, MAGIC_ENCRYPTED \o Fill(6), MAGIC_ENCRYPTED \o Fill(43),
      MAGIC_ENCRYPTED \o Fill(44), MAGIC_PLAIN }
    \cup {MAGIC_PLAIN \o b : b \in BadPayloads \cup OddPayloads}
    \cup {encrypt(b, PassK, s, n) :
            b \in BadPayloads \cup OddPayloads, s \in Salts, n \in Nonces}

InitCodec ==
    /\ file = Absent
    /\ saved = NoSave
    /\ res = NoLoad
    /\ inv = NoInv
    /\ pc = NoProcs
    /\ arg = NoArgs
    /\ loc = NoLoc
    /\ order = <<>>

Save(r, p, salt, nonce) ==
    /\ saved.kind = "none"
    /\ file' = save_entries(r, p, salt, nonce)
    /\ saved' = [kind |-> "saved", entries |-> r, pass |-> p]
    /\ res' = NoLoad
    /\ UNCHANGED <<inv, pc, arg, loc, order>>

PutRaw(d) ==
    /\ saved.kind = "none"
    /\ file' = Present(d)
    /\ saved' = [kind |-> "raw", entries |-> <<>>, pass |-> None]
    /\ res' = NoLoad
    /\ UNCHANGED <<inv, pc, arg, loc, order>>

Load(q) ==
    /\ res' = [kind |-> "loaded", pass |-> q, r |-> load_entries(file, q)]
    /\ UNCHANGED <<file, saved, inv, pc, arg, loc, order>>

NextCodec ==
    \/ \E r \in RecordSeqs, p \in PassOpts, salt \in Salts, nonce \in Nonces :
          Save(r, p, salt, nonce)
    \/ \E d \in RawFiles : PutRaw(d)
    \/ \E q \in PassOpts : Load(q)

SpecCodec == InitCodec /\ [][NextCodec]_vars

-----------------------------------------------------------------------------
(* Claims about the codec, checked under SpecCodec.                        *)

Loaded == res.kind = "loaded"
FileTag == IF file.exists /\ Len(file.data) >= 4 THEN SubSeq(file.data, 1, 4) ELSE <<>>
MinEncryptedLen == 4 + SALT_LEN + NONCE_LEN + TAG_LEN

\* C1: round trip.  After save_entries(path, r, p), load_entries(path, p)
\* succeeds and returns exactly r, for every record sequence r and every
\* passphrase choice p (a string, or none).
C1_RoundTrip ==
    (saved.kind = "saved" /\ Loaded /\ res.pass = saved.pass)
        => res.r.ok /\ res.r.val = saved.entries

\* Two records, the first with a name that needs escaping, saved under a
\* passphrase and loaded back with it.
C1_Witness ==
    /\ saved.kind = "saved" /\ Loaded /\ res.pass = saved.pass
    /\ saved.pass = Some(PassK)
    /\ Len(saved.entries) = MaxRecords
    /\ saved.entries[1].name = <<34, 92>>
    /\ res.r.ok /\ Len(res.r.val) = MaxRecords

\* C2 as claimed: every load of an existing file shorter than 48 bytes fails
\* with "file too short", whatever its first bytes and the passphrase.
C2_TooShortAlways ==
    (Loaded /\ file.exists /\ Len(file.data) < MinEncryptedLen)
        => ~res.r.ok /\ res.r.err = ErrTooShort

\* C2 amended: the tag is dispatched on before the length is looked at.  A
\* file shorter than 48 bytes fails with "file too short" exactly when it
\* starts with RVP1 and a passphrase is supplied; starting with RVP1 and
\* loaded without a passphrase it fails with "passphrase required"; with any
\* other first bytes (RVP0 included) it loads without error.
C2_TooShortOnlyEncrypted ==
    (Loaded /\ file.exists /\ Len(file.data) < MinEncryptedLen)
        => IF FileTag = MAGIC_ENCRYPTED
           THEN ~res.r.ok
                /\ res.r.err = (IF res.pass.some THEN ErrTooShort ELSE ErrNoKey)
           ELSE res.r.ok

\* A 10-byte file starting with RVP1, loaded with a passphrase.
C2_Witness ==
    /\ Loaded /\ file.exists /\ Len(file.data) = 10
    /\ FileTag = MAGIC_ENCRYPTED /\ res.pass.some
    /\ ~res.r.ok /\ res.r.err = ErrTooShort

\* C3: wrong key rejection.  A store saved with passphrase p and loaded with
\* a passphrase q # p fails with "wrong passphrase or corrupted data" and
\* yields no records.
C3_WrongKeyRejected ==
    (saved.kind = "saved" /\ saved.pass.some /\ Loaded /\ res.pass.some
       /\ res.pass.s # saved.pass.s)
        => ~res.r.ok /\ res.r.err = ErrAuth /\ res.r.val = <<>>

\* A non-empty store saved under k and loaded with w.
C3_Witness ==
    /\ saved.kind = "saved" /\ saved.pass = Some(PassK) /\ saved.entries # <<>>
    /\ Loaded /\ res.pass = Some(PassW)
    /\ res.r.err = ErrAuth

\* C4: plain-container passphrase independence.  A store saved with no
\* passphrase loads to the saved records with every passphrase argument.
C4_PlainIgnoresPassphrase ==
    (saved.kind = "saved" /\ ~saved.pass.some /\ Loaded)
        => res.r.ok /\ res.r.val = saved.entries

\* A non-empty plain store loaded with the passphrase w.
C4_Witness ==
    /\ saved.kind = "saved" /\ ~saved.pass.some /\ saved.entries # <<>>
    /\ Loaded /\ res.pass = Some(PassW)
    /\ res.r.ok /\ res.r.val # <<>>

\* C5: a file shorter than 4 bytes (empty included), or whose first 4 bytes
\* are neither RVP0 nor RVP1, loads as the empty record sequence without
\* error, for every passphrase argument.
C5_UnknownTagIsEmptyStore ==
    (Loaded /\ file.exists /\ FileTag \notin {MAGIC_PLAIN, MAGIC_ENCRYPTED})
        => res.r = Ok(<<>>)

\* A 60-byte file with an unknown tag, loaded with a passphrase.
C5_Witness ==
    /\ Loaded /\ file.exists /\ Len(file.data) = 60
    /\ FileTag \notin {MAGIC_PLAIN, MAGIC_ENCRYPTED}
    /\ res.pass = Some(PassK) /\ res.r = Ok(<<>>)

\* The payload of the file does not parse as a record sequence: the bytes
\* after RVP0, or what an RVP1 container decrypts to under passphrase q.
PayloadUnparsable(f, q) ==
    /\ f.exists /\ Len(f.data) >= 4
    /\ \/ /\ SubSeq(f.data, 1, 4) = MAGIC_PLAIN
          /\ ~from_slice(from_utf8_lossy(SubSeqFrom(f.data, 5))).ok
       \/ /\ SubSeq(f.data, 1, 4) = MAGIC_ENCRYPTED /\ q.some
          /\ decrypt(f.data, q.s).ok
          /\ ~from_slice(decrypt(f.data, q.s).val).ok

\* C6: deserialization fails closed.  Whenever the payload of a container
\* does not parse, load yields the empty sequence and no error, for a plain
\* container and for an encrypted one that decrypted successfully.
C6_ParseFailsClosed ==
    (Loaded /\ PayloadUnparsable(file, res.pass)) => res.r = Ok(<<>>)

-----------------------------------------------------------------------------
(* The command line: one invocation of main after another.                 *)

NameA == <<97>>                                  \* a
NameUpperA == <<65>>                             \* A
NamesCli == {NameA, NameUpperA}
NameArgs == NamesCli \cup {<<>>}                 \* <<>>: the argument is not given
UserU == <<117>>                                 \* u
SecretP == <<112>>                               \* p
KeysTyped == {<<>>, PassK, PassW}                \* <<>>: Enter at the prompt
Commands == {"init", "add", "list", "get", "delete", "help"}

\* if pass.is_empty() { None } else { Some(&pass) }
Opt(pass) == IF pass = <<>> THEN None ELSE Some(pass)

\* NameExists comparing the wrong field.
NameExistsByUser(entries, name) == \E i \in 1..Len(entries) : entries[i].user = name

\* entries.iter().any(|e| e.name == name)
NameExists(entries, name) == \E i \in 1..Len(entries) : entries[i].name = name

\* entries.retain(|e| e.name != name)
Retain(entries, name) == SelectSeq(entries, LAMBDA e : e.name # name)

\* entries.iter().find(|e| e.name == name), given that one exists
Find(entries, name) ==
    entries[CHOOSE i \in 1..Len(entries) :
                /\ entries[i].name = name
                /\ \A j \in 1..(i - 1) : entries[j].name # name]

\* ExitStatus of a main that swallows its error.
ExitStatusZero(result) == 0

\* The exit status of the process: main returns a Result, and the runtime
\* turns Ok(()) into 0 and an Err into 1 (after printing "Error: ..").
ExitStatus(result) == IF result.ok THEN 0 ELSE 1

ErrNoDataDir == "could not determine data directory"

\* How an invocation ends: the file it leaves, its exit status, what it
\* printed (a message, and the entries it showed).
Returned(f, result, text, shown) ==
    [file |-> f, exit |-> ExitStatus(result),
     out |-> IF result.ok THEN text ELSE result.err, shown |-> shown]

main_init(pass, salt, nonce) ==
    Returned(save_entries(<<>>, Opt(pass), salt, nonce), Ok(<<>>),
             IF pass = <<>> THEN "Store created (unencrypted)." ELSE "Store created.",
             <<>>)

AddLoaded(f, entry, passphrase, salt, nonce, loaded) ==
    IF ~loaded.ok THEN Returned(f, loaded, "", <<>>)
    ELSE IF NameExists(loaded.val, entry.name)
    THEN Returned(f, Ok(<<>>), "Name already exists.", <<>>)
    ELSE Returned(save_entries(Append(loaded.val, entry), Opt(passphrase), salt, nonce),
                  Ok(<<>>), "Saved.", <<>>)

main_add(f, name, user, password, passphrase, salt, nonce) ==
    IF name = <<>> THEN Returned(f, Ok(<<>>), "usage: add", <<>>)
    ELSE AddLoaded(f, [name |-> name, user |-> user, password |-> password],
                   passphrase, salt, nonce, load_entries(f, Opt(passphrase)))

ListLoaded(f, loaded) ==
    IF ~loaded.ok THEN Returned(f, loaded, "", <<>>)
    ELSE IF loaded.val = <<>> THEN Returned(f, Ok(<<>>), "(none)", <<>>)
    ELSE Returned(f, Ok(<<>>), "listed",
                  [i \in 1..Len(loaded.val) |->
                      <<loaded.val[i].name, loaded.val[i].user>>])

main_list(f, passphrase) == ListLoaded(f, load_entries(f, Opt(passphrase)))

GetLoaded(f, name, loaded) ==
    IF ~loaded.ok THEN Returned(f, loaded, "", <<>>)
    ELSE IF NameExists(loaded.val, name)
    THEN Returned(f, Ok(<<>>), "found",
                  <<<<Find(loaded.val, name).user, Find(loaded.val, name).password>>>>)
    ELSE Returned(f, Ok(<<>>), "Not found.", <<>>)

main_get(f, name, passphrase) ==
    IF name = <<>> THEN Returned(f, Ok(<<>>), "usage: get", <<>>)
    ELSE GetLoaded(f, name, load_entries(f, Opt(passphrase)))

DeleteLoaded(f, name, passphrase, salt, nonce, loaded) ==
    IF ~loaded.ok THEN Returned(f, loaded, "", <<>>)
    ELSE IF Len(Retain(loaded.val, name)) = Len(loaded.val)
    THEN Returned(f, Ok(<<>>), "Not found.", <<>>)
    ELSE Returned(save_entries(Retain(loaded.val, name), Opt(passphrase), salt, nonce),
                  Ok(<<>>), "Deleted.", <<>>)

main_delete(f, name, passphrase, salt, nonce) ==
    IF name = <<>> THEN Returned(f, Ok(<<>>), "usage: delete", <<>>)
    ELSE DeleteLoaded(f, name, passphrase, salt, nonce,
                      load_entries(f, Opt(passphrase)))

main_help(f) == Returned(f, Ok(<<>>), "help", <<>>)

\* store_path() gave None: main returns the error before it reads argv.
main_no_data_dir(f) == Returned(f, Err(ErrNoDataDir), "", <<>>)

Init ==
    /\ file = Absent
    /\ saved = NoSave
    /\ res = NoLoad
    /\ inv = NoInv
    /\ pc = NoProcs
    /\ arg = NoArgs
    /\ loc = NoLoc
    /\ order = <<>>

\* An invocation of cmd with the name argument and the master key typed,
\* ending as o.
Invoked(cmd, name, key, o) ==
    /\ file' = o.file
    /\ inv' = [cmd |-> cmd, name |-> name, key |-> key, exit |-> o.exit,
               out |-> o.out, shown |-> o.shown]
    /\ UNCHANGED <<saved, res, pc, arg, loc, order>>

\* What OsRng may give one call of encrypt: a salt and a nonce.
Draws == Salts \X Nonces

CmdInit(pass) ==
    \E o \in {main_init(pass, d[1], d[2]) : d \in Draws} :
        Invoked("init", <<>>, pass, o)

CmdAdd(name, passphrase) ==
    \E o \in {main_add(file, name, UserU, SecretP, passphrase, d[1], d[2]) :
                d \in Draws} :
        Invoked("add", name, passphrase, o)

CmdList(passphrase) == Invoked("list", <<>>, passphrase, main_list(file, passphrase))

CmdGet(name, passphrase) ==
    Invoked("get", name, passphrase, main_get(file, name, passphrase))

CmdDelete(name, passphrase) ==
    \E o \in {main_delete(file, name, passphrase, d[1], d[2]) : d \in Draws} :
        Invoked("delete", name, passphrase, o)

CmdHelp == Invoked("help", <<>>, <<>>, main_help(file))

NoDataDir(cmd) == Invoked(cmd, <<>>, <<>>, main_no_data_dir(file))

Next ==
    \/ \E pass \in KeysTyped : CmdInit(pass)
    \/ \E name \in NameArgs, pass \in KeysTyped : CmdAdd(name, pass)
    \/ \E pass \in KeysTyped : CmdList(pass)
    \/ \E name \in NameArgs, pass \in KeysTyped : CmdGet(name, pass)
    \/ \E name \in NameArgs, pass \in KeysTyped : CmdDelete(name, pass)
    \/ CmdHelp
    \/ \E cmd \in Commands : NoDataDir(cmd)

Spec == Init /\ [][Next]_vars

-----------------------------------------------------------------------------
(* Claims about the command line, checked under Spec.                      *)

KeyOpts == {Opt(k) : k \in KeysTyped}

NoTwoWithSameName(entries) ==
    \A i, j \in 1..Len(entries) : entries[i].name = entries[j].name => i = j

Holds(entries, name) == \E i \in 1..Len(entries) : entries[i].name = name

\* The file is an RVP1 container that authenticates under passphrase p.
EncryptedUnder(f, p) ==
    /\ f.exists /\ Len(f.data) >= 4
    /\ SubSeq(f.data, 1, 4) = MAGIC_ENCRYPTED
    /\ decrypt(f.data, p).ok

\* The records held in the file: what it loads to under a key that opens it.
Opens(f, q) == load_entries(f, q).ok

LoadCommands == {"add", "list", "get", "delete"}

NamesUniqueInFile ==
    \A q \in KeyOpts :
        load_entries(file, q).ok => NoTwoWithSameName(load_entries(file, q).val)

\* This step is an add of a name the file already holds.
AddOfHeldName ==
    /\ inv'.cmd = "add"
    /\ \E q \in KeyOpts : Opens(file, q) /\ Holds(load_entries(file, q).val, inv'.name)

\* C8: name uniqueness.  From a missing file, after any sequence of init,
\* add, list, get and delete invocations with any passphrases, the records
\* in the store file never hold two records of the same name (exact,
\* case-sensitive match), and an add of a name already held writes nothing.
C8_NameUniqueness ==
    /\ []NamesUniqueInFile
    /\ [][AddOfHeldName => file' = file]_vars

\* An add was refused for its name, in a store of two records whose names
\* differ only in case.
C8_Witness ==
    /\ inv.cmd = "add" /\ inv.out = "Name already exists." /\ inv.name = NameA
    /\ load_entries(file, Opt(inv.key)).ok
    /\ Len(load_entries(file, Opt(inv.key)).val) = 2

\* A step from a store encrypted under p, by add, delete, list or get,
\* leaves a store encrypted under p; invoked with another key or none, it
\* leaves the file as it is and, when it got as far as the load, fails.
KeepsEncryptedStore(p) ==
    (EncryptedUnder(file, p) /\ inv'.cmd \in LoadCommands) =>
        /\ EncryptedUnder(file', p)
        /\ inv'.key # p =>
              /\ file' = file
              /\ (inv'.cmd = "list" \/ inv'.name # <<>>) =>
                    inv'.exit = 1 /\ inv'.out \in {ErrNoKey, ErrAuth, ErrNoDataDir}

\* C10: once the store is an encrypted container under passphrase p, an add
\* or delete with no passphrase or with q # p fails at load and leaves the
\* file byte for byte unchanged; across add, delete, list and get (no init)
\* an encrypted store is never replaced by a plain container or by one under
\* another passphrase.
C10_EncryptedStoreKept ==
    [][KeepsEncryptedStore(PassK) /\ KeepsEncryptedStore(PassW)]_vars

\* An add with the key w on a non-empty store encrypted under k failed.
C10_Witness ==
    /\ inv.cmd = "add" /\ inv.name # <<>> /\ inv.key = PassW
    /\ inv.exit = 1 /\ inv.out = ErrAuth
    /\ EncryptedUnder(file, PassK)
    /\ load_entries(file, Some(PassK)).val # <<>>

-----------------------------------------------------------------------------
(* Two add invocations at once on the same store file.  Each is main's add  *)
(* arm in its two file operations: the load (fs::read inside load_entries)  *)
(* and, when the name is new, the save (one fs::write of the whole          *)
(* container).  Nothing orders the operations of one against the other.     *)

NameC == <<99>>                                  \* c, a name already stored
EntryC == [name |-> NameC, user |-> UserU, password |-> SecretP]
EntryA == [name |-> NameA, user |-> UserU, password |-> SecretP]
RaceKeys == {<<>>, PassK}

\* The stores the two invocations may find: none, an empty or a one-record
\* plain store, an empty or a one-record store encrypted under k, and a
\* plain store that already holds the first invocation's name.
RaceStores ==
    {Absent}
    \cup {save_entries(es, None, d[1], d[2]) :
            es \in {<<>>, <<EntryC>>, <<EntryA>>}, d \in Draws}
    \cup {save_entries(es, Some(PassK), d[1], d[2]) :
            es \in {<<>>, <<EntryC>>}, d \in Draws}

InitRace ==
    /\ file \in RaceStores
    /\ saved = NoSave
    /\ res = NoLoad
    /\ inv = NoInv
    /\ pc = [p \in Procs |-> "start"]
    /\ arg \in {a \in [Procs -> [name : {NameA, NameUpperA}, key : RaceKeys]] :
                   a[1].name = NameA /\ a[2].name = NameUpperA}
    /\ loc = [p \in Procs |-> [entries |-> <<>>, at |-> 0]]
    /\ order = <<>>

EntryOf(p) == [name |-> arg[p].name, user |-> UserU, password |-> SecretP]

\* Where the add arm stands after its load: the error left main ("failed"),
\* the name is taken ("exists"), or the entries are in hand ("loaded").
AfterLoad(name, loaded) ==
    IF ~loaded.ok THEN "failed"
    ELSE IF NameExists(loaded.val, name) THEN "exists"
    ELSE "loaded"

\* let mut entries = load_entries(&path, ..)?; and the test of the name
AddLoad(p) ==
    /\ pc[p] = "start"
    /\ pc' = [pc EXCEPT ![p] =
                 AfterLoad(arg[p].name, load_entries(file, Opt(arg[p].key)))]
    /\ loc' = [loc EXCEPT ![p] =
                 [entries |-> load_entries(file, Opt(arg[p].key)).val,
                  at |-> Len(order)]]
    /\ UNCHANGED <<file, saved, res, inv, arg, order>>

\* AddWrites reading the file again at the time of the save.
AddWritesReloaded(p, salt, nonce) ==
    save_entries(Append(load_entries(file, Opt(arg[p].key)).val, EntryOf(p)),
                 Opt(arg[p].key), salt, nonce)

\* What the save of invocation p writes: the entries it loaded, with its own.
AddWrites(p, salt, nonce) ==
    save_entries(Append(loc[p].entries, EntryOf(p)), Opt(arg[p].key), salt, nonce)

\* entries.push(..); save_entries(&path, &entries, ..)
AddSave(p) ==
    /\ pc[p] = "loaded"
    /\ \E f \in {AddWrites(p, d[1], d[2]) : d \in Draws} : file' = f
    /\ pc' = [pc EXCEPT ![p] = "saved"]
    /\ order' = Append(order, p)
    /\ UNCHANGED <<saved, res, inv, arg, loc>>

NextRace == \E p \in Procs : AddLoad(p) \/ AddSave(p)

SpecRace == InitRace /\ [][NextRace]_vars

-----------------------------------------------------------------------------
(* Claims about concurrent adds, checked under SpecRace.                   *)

LastWriter == order[Len(order)]

StoreAsSeenBy(p) == load_entries(file, Opt(arg[p].key))

====
